---- MODULE Spec2Model ----
(***************************************************************************)
(* Event notification and delivery pipeline of googley_bot.                *)
(*                                                                         *)
(*   - Webhook ingestion: src/integrations/github/webhooks.py persists one *)
(*     GitHubWebhookEvent per call; src/models/github.py carries the       *)
(*     unique constraint on delivery_id and the mark_processed/mark_error  *)
(*     methods.                                                            *)
(*   - Listener: src/bot/events.py (GoogleyEventHandlers) keeps a Postgres *)
(*     LISTEN connection, schedules one handler task per notification and  *)
(*     runs a keep-alive loop.                                             *)
(***************************************************************************)
EXTENDS Integers, Sequences, FiniteSets, TLC

\* ------------------------------------------------------------------ bounds
MaxRequests == 2

MaxRetry == 2

MaxStarts == 2

MaxNotifs == 2

MaxRedrives == 2

MaxCreates == 2

MaxTicks == 3

\* Seconds the clock moves in one step.
TickSeconds == 30

\* Rows of table notion_tasks followed through their status changes.
MaxTaskRows == 1

None == "None"

\* processed_at IS NULL; the clock starts after it.
NoTime == 0

\* ============================================================ WEBHOOK SIDE

VARIABLES
    github_webhook_events,  \* committed rows of table github_webhook_events
    next_id,                \* next primary key handed out by the store
    requests,               \* one record per webhook call (in flight or finished)
    delivered,              \* delivery_id -> number of side effects performed
    now,                    \* clock read by datetime.now(); it moves on after each read
    redrives                \* calls of the processor that found the row processed

webhookVars == <<github_webhook_events, next_id, requests, delivered, now, redrives>>

VARIABLES
    listening,         \* self._listening
    listener_conn,     \* self._listener_conn (0 is None)
    conns,             \* connections opened so far: alive flag and callbacks
    starts,            \* calls of start_postgres_listener
    keep_alive,        \* the start calls whose _keep_pg_alive task is running
    notifs,            \* NOTIFY messages emitted by the database so far
    tasks,             \* handler tasks made by asyncio.create_task, in order
    stopped_on_error   \* a keep-alive round-trip has failed at some point

listenerVars ==
    <<listening, listener_conn, conns, starts, keep_alive, notifs, tasks,
      stopped_on_error>>

VARIABLES
    calendar_webhook_events,  \* committed rows of table calendar_webhook_events
    calendar_requests         \* one record per call of handle_calendar_webhook

calendarVars == <<calendar_webhook_events, calendar_requests>>

VARIABLES
    github_repositories,  \* full_name -> row of table github_repositories
    google_calendars,     \* <<user_id, calendar_id>> -> row of table google_calendars
    last_call             \* the latest subscribe/unsubscribe call and how it ended

subscriptionVars == <<github_repositories, google_calendars, last_call>>

VARIABLES
    notion_tasks,     \* committed rows of table notion_tasks
    next_task_id,     \* next primary key of notion_tasks
    notion_pages,     \* pages made in Notion by notion_client.create_task
    create_requests,  \* one record per /notion task create command
    utcnow            \* seconds on the clock behind datetime.utcnow() and func.now()

notionVars == <<notion_tasks, next_task_id, notion_pages, create_requests, utcnow>>

VARIABLES
    task_rows,        \* id -> the status and sync columns of a notion_tasks row
    last_statement,   \* the latest INSERT/UPDATE of a row and what its triggers emitted
    last_update_call  \* the latest /notion task update command and how it ended

taskVars == <<task_rows, last_statement, last_update_call>>

outsideWebhook == <<listenerVars, calendarVars, subscriptionVars, notionVars, taskVars>>

outsideListener == <<webhookVars, calendarVars, subscriptionVars, notionVars, taskVars>>

outsideCalendar == <<webhookVars, listenerVars, subscriptionVars, notionVars, taskVars>>

outsideSubscriptions == <<webhookVars, listenerVars, calendarVars, notionVars, taskVars>>

outsideNotion == <<webhookVars, listenerVars, calendarVars, subscriptionVars, taskVars>>

outsideTasks == <<webhookVars, listenerVars, calendarVars, subscriptionVars, notionVars>>

\* src/models/github.py:13-27
GitHubEventType ==
    { "push", "pull_request", "issues", "issue_comment", "pull_request_review",
      "pull_request_review_comment", "release", "create", "delete", "fork",
      "star", "watch" }

\* Inputs a provider may send.
EventTypeInputs == { "push", "pull_request", "deployment" }

DeliveryIds == { "", "abc-1", "abc-2" }

Bodies == { "body-1", "body-2" }

GITHUB_WEBHOOK_SECRET == "secret"

Secrets == { GITHUB_WEBHOOK_SECRET, "wrong-secret" }

\* An ideal MAC: the tag determines the key and the message it was made from.
hmac_sha256(secret, body) == <<secret, body>>

\* Signatures a sender can attach: made over the first body, with either secret.
Signatures == { hmac_sha256(s, "body-1") : s \in Secrets }

verify_signatureBuggy(raw_body, signature) == signature[2] = raw_body

\* Constant-time comparison of the header with the MAC of the raw body.
verify_signature(raw_body, signature) ==
    signature = hmac_sha256(GITHUB_WEBHOOK_SECRET, raw_body)

RequestIds == 1 .. MaxRequests

IdleRequest ==
    [ pc |-> "idle", event_type |-> None, delivery_id |-> None,
      authentic |-> FALSE, outcome |-> None,
      recorded_before |-> FALSE, row_id |-> 0 ]

\* payload.get(key, default) on a parsed JSON object.
Get(obj, key, default) == IF key \in DOMAIN obj THEN obj[key] ELSE default

\* {} as a default of payload.get.
EmptyDict == << >>

\* pull_request_number / issue_number IS NULL; GitHub numbers start at 1.
NoNumber == 0

\* The parsed body GitHub sends with each kind of event.
PayloadOf(event_type) ==
    CASE event_type = "push" ->
           [ ref |-> "refs/heads/main", after |-> "sha-push" ]
      [] event_type = "pull_request" ->
           [ action |-> "opened",
             pull_request |->
               [ title |-> "Add feature", body |-> "PR body", number |-> 7,
                 head |-> [ ref |-> "feature", sha |-> "sha-pr" ] ] ]
      [] OTHER -> [ action |-> "created" ]

\* ref.split("/")[-1]
split_last(ref) ==
    CASE ref = "refs/heads/main" -> "main"
      [] ref = "feature" -> "feature"
      [] OTHER -> ref

extract_title(event_type, payload) ==
    IF event_type = "pull_request"
      THEN Get(Get(payload, "pull_request", EmptyDict), "title", "")
    ELSE IF event_type = "issues"
      THEN Get(Get(payload, "issue", EmptyDict), "title", "")
    ELSE ""

extract_body(event_type, payload) ==
    IF event_type = "pull_request"
      THEN Get(Get(payload, "pull_request", EmptyDict), "body", "")
    ELSE IF event_type = "issues"
      THEN Get(Get(payload, "issue", EmptyDict), "body", "")
    ELSE ""

extract_branch(event_type, payload) ==
    IF event_type = "push"
      THEN split_last(Get(payload, "ref", ""))
    ELSE IF event_type = "pull_request"
      THEN Get(Get(Get(payload, "pull_request", EmptyDict), "head", EmptyDict),
               "ref", "")
    ELSE ""

extract_commit_sha(event_type, payload) ==
    IF event_type = "push"
      THEN Get(payload, "after", "")
    ELSE IF event_type = "pull_request"
      THEN Get(Get(Get(payload, "pull_request", EmptyDict), "head", EmptyDict),
               "sha", "")
    ELSE ""

extract_pr_number(event_type, payload) ==
    IF event_type = "pull_request"
      THEN Get(Get(payload, "pull_request", EmptyDict), "number", NoNumber)
      ELSE NoNumber

extract_issue_number(event_type, payload) ==
    IF event_type = "issues"
      THEN Get(Get(payload, "issue", EmptyDict), "number", NoNumber)
      ELSE NoNumber

\* The GitHubWebhookEvent built at webhooks.py:16-36.
NewEvent(id, event_type, delivery_id) ==
    [ id |-> id, delivery_id |-> delivery_id, event_type |-> event_type,
      title |-> extract_title(event_type, PayloadOf(event_type)),
      body |-> extract_body(event_type, PayloadOf(event_type)),
      branch |-> extract_branch(event_type, PayloadOf(event_type)),
      commit_sha |-> extract_commit_sha(event_type, PayloadOf(event_type)),
      pull_request_number |-> extract_pr_number(event_type, PayloadOf(event_type)),
      issue_number |-> extract_issue_number(event_type, PayloadOf(event_type)),
      processed |-> FALSE, processed_at |-> NoTime,
      discord_message_id |-> None, discord_channel_id |-> None,
      error_message |-> None, retry_count |-> 0 ]

RowsOf(d) == { e \in github_webhook_events : e.delivery_id = d }

\* The unique constraint on delivery_id, as the store enforces it at INSERT.
UniqueViolationBuggy(d) == FALSE

UniqueViolation(d) == RowsOf(d) # {}

mark_processedBuggy(e, discord_message_id, discord_channel_id, t) ==
    [ e EXCEPT !.processed = TRUE,
               !.processed_at = t,
               !.retry_count = 0 ]

mark_processed(e, discord_message_id, discord_channel_id, t) ==
    [ e EXCEPT !.processed = TRUE,
               !.processed_at = t,
               !.discord_message_id =
                   IF discord_message_id # None THEN discord_message_id ELSE @,
               !.discord_channel_id =
                   IF discord_channel_id # None THEN discord_channel_id ELSE @ ]

mark_errorBuggy(e, error_message) ==
    [ e EXCEPT !.error_message = error_message,
               !.retry_count = @ + 1,
               !.processed = TRUE ]

mark_error(e, error_message) ==
    [ e EXCEPT !.error_message = error_message,
               !.retry_count = @ + 1 ]

\* The HTTP endpoint takes the call: it checks the signature and, when it
\* matches, runs handle_github_webhook_event up to its first await
\* (db.commit()).  GitHubEventType(event_type) raises ValueError for a value
\* that is not a member of the enum.
Receive(r, event_type, delivery_id, raw_body, signature) ==
    /\ requests[r].pc = "idle"
    /\ \A q \in RequestIds : q < r => requests[q].pc # "idle"
    /\ LET base == [ requests[r] EXCEPT
                       !.event_type = event_type,
                       !.delivery_id = delivery_id,
                       !.authentic =
                           (signature = hmac_sha256(GITHUB_WEBHOOK_SECRET, raw_body)),
                       !.recorded_before = (RowsOf(delivery_id) # {}) ]
       IN  requests' =
             [ requests EXCEPT ![r] =
                 IF ~verify_signature(raw_body, signature)
                   THEN [ base EXCEPT !.pc = "done", !.outcome = "auth_error" ]
                 ELSE IF event_type \notin GitHubEventType
                   THEN [ base EXCEPT !.pc = "done", !.outcome = "value_error" ]
                 ELSE [ base EXCEPT !.pc = "commit" ] ]
    /\ UNCHANGED <<github_webhook_events, next_id, delivered, now, redrives>>
    /\ UNCHANGED outsideWebhook

\* await db.commit() of handle_github_webhook_event: the INSERT either goes
\* through or is refused by the unique constraint (IntegrityError).
Commit(r) ==
    /\ requests[r].pc = "commit"
    /\ IF UniqueViolation(requests[r].delivery_id)
         THEN /\ requests' = [ requests EXCEPT ![r].pc = "done",
                                               ![r].outcome = "integrity_error" ]
              /\ UNCHANGED <<github_webhook_events, next_id>>
         ELSE /\ github_webhook_events' = github_webhook_events \cup
                    { NewEvent(next_id, requests[r].event_type,
                               requests[r].delivery_id) }
              /\ next_id' = next_id + 1
              /\ requests' = [ requests EXCEPT ![r].pc = "done",
                                               ![r].outcome = "success",
                                               ![r].row_id = next_id ]
    /\ UNCHANGED <<delivered, now, redrives>>
    /\ UNCHANGED outsideWebhook

\* await db.commit() while the store cannot be reached: the error propagates.
CommitStoreError(r) ==
    /\ requests[r].pc = "commit"
    /\ requests' = [ requests EXCEPT ![r].pc = "done",
                                     ![r].outcome = "store_error" ]
    /\ UNCHANGED <<github_webhook_events, next_id, delivered, now, redrives>>
    /\ UNCHANGED outsideWebhook

MessageRefs == { <<None, None>>, <<"msg-1", "chan-1">> }

ErrorMessages == { "delivery failed" }

\* The Event Processor drives a pending row and its side effect succeeds.
ProcessSuccess(e, ref) ==
    /\ e \in github_webhook_events
    /\ ~e.processed
    /\ delivered' = [ delivered EXCEPT ![e.delivery_id] = @ + 1 ]
    /\ github_webhook_events' =
          (github_webhook_events \ {e}) \cup { mark_processed(e, ref[1], ref[2], now) }
    /\ now' = now + 1
    /\ UNCHANGED <<next_id, requests, redrives>>
    /\ UNCHANGED outsideWebhook

\* The Event Processor drives a pending row and its side effect fails.
ProcessFailure(e, msg) ==
    /\ e \in github_webhook_events
    /\ ~e.processed
    /\ e.retry_count < MaxRetry
    /\ github_webhook_events' =
          (github_webhook_events \ {e}) \cup { mark_error(e, msg) }
    /\ UNCHANGED <<next_id, requests, delivered, now, redrives>>
    /\ UNCHANGED outsideWebhook

ProcessAgainBuggy(e) ==
    /\ e \in github_webhook_events
    /\ e.processed
    /\ redrives < MaxRedrives
    /\ redrives' = redrives + 1
    /\ delivered' = [ delivered EXCEPT ![e.delivery_id] = @ + 1 ]
    /\ github_webhook_events' =
          (github_webhook_events \ {e}) \cup { mark_processed(e, None, None, now) }
    /\ now' = now + 1
    /\ UNCHANGED <<next_id, requests>>
    /\ UNCHANGED outsideWebhook

\* The Event Processor is driven again on a row that is already processed
\* (a manual replay): its guard returns before any side effect.
ProcessAgain(e) ==
    /\ e \in github_webhook_events
    /\ e.processed
    /\ redrives < MaxRedrives
    /\ redrives' = redrives + 1
    /\ UNCHANGED <<github_webhook_events, next_id, requests, delivered, now>>
    /\ UNCHANGED outsideWebhook

WebhookInit ==
    /\ github_webhook_events = {}
    /\ next_id = 1
    /\ requests = [ r \in RequestIds |-> IdleRequest ]
    /\ delivered = [ d \in DeliveryIds |-> 0 ]
    /\ now = NoTime + 1
    /\ redrives = 0

\* The calls in R of handle_github_webhook_event.
IngestNext(R) ==
    \/ \E r \in R, t \in EventTypeInputs, d \in DeliveryIds,
          b \in Bodies, s \in Signatures : Receive(r, t, d, b, s)
    \/ \E r \in R : Commit(r)
    \/ \E r \in R : CommitStoreError(r)

\* The Event Processor on pending rows.
ProcessNext ==
    \/ \E e \in github_webhook_events, ref \in MessageRefs : ProcessSuccess(e, ref)
    \/ \E e \in github_webhook_events, msg \in ErrorMessages : ProcessFailure(e, msg)

WebhookNext == IngestNext(RequestIds) \/ ProcessNext

\* One webhook call, its processing, and replays of the processed row.
RedriveNext ==
    \/ IngestNext({1})
    \/ ProcessNext
    \/ \E e \in github_webhook_events : ProcessAgain(e)

\* =========================================================== LISTENER SIDE

StartIds == 1 .. MaxStarts

Channels == { "task_update", "task_completed", "task_assigned" }

\* ---- the notification wire format and json.loads on it
WellFormedFull ==
    "{\"discord_id\":\"123456789012345678\",\"message\":{\"title\":\"Fix bug\",\"status\":\"in_progress\"}}"

WellFormedBare == "{\"discord_id\":\"42\"}"

MissingDiscordId == "{\"message\":{\"title\":\"Fix bug\"}}"

EmptyDiscordId == "{\"discord_id\":\"\",\"message\":{\"title\":\"Fix bug\"}}"

InvalidJson == "{not json"

Payloads ==
    { WellFormedFull, WellFormedBare, MissingDiscordId, EmptyDiscordId, InvalidJson }

NoObject == [ ok |-> FALSE, keys |-> {}, discord_id |-> "", message |-> {} ]

\* json.loads: the parsed object, as the set of its keys, the string under
\* "discord_id" and the key/value pairs under "message".
json_loads(payload) ==
    CASE payload = WellFormedFull ->
           [ ok |-> TRUE, keys |-> { "discord_id", "message" },
             discord_id |-> "123456789012345678",
             message |-> { <<"title", "Fix bug">>, <<"status", "in_progress">> } ]
      [] payload = WellFormedBare ->
           [ ok |-> TRUE, keys |-> { "discord_id" },
             discord_id |-> "42", message |-> {} ]
      [] payload = MissingDiscordId ->
           [ ok |-> TRUE, keys |-> { "message" },
             discord_id |-> "", message |-> { <<"title", "Fix bug">> } ]
      [] payload = EmptyDiscordId ->
           [ ok |-> TRUE, keys |-> { "discord_id", "message" },
             discord_id |-> "", message |-> { <<"title", "Fix bug">> } ]
      [] OTHER -> NoObject

\* int(s) succeeds on a non-empty string of digits.
IsInt(s) == s \in { "123456789012345678", "42" }

\* add_listener(channel, callback) at events.py:113-115.
CallbackOfBuggy(channel) ==
    CASE channel = "task_update" -> "update_callback"
      [] channel = "task_completed" -> "update_callback"
      [] channel = "task_assigned" -> "assigned_callback"

CallbackOf(channel) ==
    CASE channel = "task_update" -> "update_callback"
      [] channel = "task_completed" -> "completed_callback"
      [] channel = "task_assigned" -> "assigned_callback"

\* The coroutine each callback hands to asyncio.create_task (events.py:104-111).
HandlerOf(callback) ==
    CASE callback = "update_callback" -> "on_task_update"
      [] callback = "completed_callback" -> "on_task_completed"
      [] callback = "assigned_callback" -> "on_task_assigned"

IdleStart == [ pc |-> "idle", result |-> None, connects |-> 0, connect_failed |-> FALSE ]

NoConn == 0

OpenedConns == DOMAIN conns

NextChannelPc(pc) ==
    CASE pc = "add_update" -> "add_completed"
      [] pc = "add_completed" -> "add_assigned"
      [] pc = "add_assigned" -> "done"

ChannelOfPc(pc) ==
    CASE pc = "add_update" -> "task_update"
      [] pc = "add_completed" -> "task_completed"
      [] pc = "add_assigned" -> "task_assigned"

AddPcs == { "add_update", "add_completed", "add_assigned" }

\* start_postgres_listener is called: the guard on self._listening.
StartCallBuggy(s) ==
    /\ starts[s].pc = "idle"
    /\ \A q \in StartIds : q < s => starts[q].pc # "idle"
    /\ starts' = [ starts EXCEPT ![s].pc = "connect" ]
    /\ UNCHANGED <<listening, listener_conn, conns, keep_alive, notifs, tasks,
                   stopped_on_error>>
    /\ UNCHANGED outsideListener

StartCall(s) ==
    /\ starts[s].pc = "idle"
    /\ \A q \in StartIds : q < s => starts[q].pc # "idle"
    /\ starts' = [ starts EXCEPT ![s] =
                     IF listening
                       THEN [ @ EXCEPT !.pc = "done", !.result = "already_listening" ]
                       ELSE [ @ EXCEPT !.pc = "connect" ] ]
    /\ UNCHANGED <<listening, listener_conn, conns, keep_alive, notifs, tasks,
                   stopped_on_error>>
    /\ UNCHANGED outsideListener

\* await asyncpg.connect(dsn=dsn) returns a connection.
Connect(s) ==
    /\ starts[s].pc = "connect"
    /\ LET k == Len(conns) + 1
       IN  /\ conns' = Append(conns, [ alive |-> TRUE, callbacks |-> {} ])
           /\ listener_conn' = k
    /\ starts' = [ starts EXCEPT ![s].pc = "add_update", ![s].connects = @ + 1 ]
    /\ UNCHANGED <<listening, keep_alive, notifs, tasks, stopped_on_error>>
    /\ UNCHANGED outsideListener

\* await asyncpg.connect(dsn=dsn) raises: the except clause logs and the
\* call returns.
ConnectFailBuggy(s) ==
    /\ starts[s].pc = "connect"
    /\ starts[s].connects < 2
    /\ starts' = [ starts EXCEPT ![s].pc = "connect",
                                 ![s].connects = @ + 1,
                                 ![s].connect_failed = TRUE ]
    /\ UNCHANGED <<listening, listener_conn, conns, keep_alive, notifs, tasks,
                   stopped_on_error>>
    /\ UNCHANGED outsideListener

ConnectFail(s) ==
    /\ starts[s].pc = "connect"
    /\ starts' = [ starts EXCEPT ![s].pc = "done",
                                 ![s].result = "error_logged",
                                 ![s].connects = @ + 1,
                                 ![s].connect_failed = TRUE ]
    /\ UNCHANGED <<listening, listener_conn, conns, keep_alive, notifs, tasks,
                   stopped_on_error>>
    /\ UNCHANGED outsideListener

AddListenerBuggy(s) ==
    /\ starts[s].pc \in AddPcs
    /\ conns[listener_conn].alive
    /\ LET channel == ChannelOfPc(starts[s].pc)
           last == starts[s].pc = "add_assigned"
       IN  /\ conns' = [ conns EXCEPT ![listener_conn].callbacks =
                           @ \cup { <<channel, CallbackOf(channel), s>> } ]
           /\ starts' = [ starts EXCEPT
                            ![s].pc = NextChannelPc(@),
                            ![s].result = IF last THEN "started" ELSE @ ]
           /\ listening' = TRUE
           /\ keep_alive' = IF last THEN keep_alive \cup {s} ELSE keep_alive
    /\ UNCHANGED <<listener_conn, notifs, tasks, stopped_on_error>>
    /\ UNCHANGED outsideListener

\* await self._listener_conn.add_listener(channel, callback) succeeds; after
\* the third one the flag is set and the keep-alive task is created.
AddListener(s) ==
    /\ starts[s].pc \in AddPcs
    /\ conns[listener_conn].alive
    /\ LET channel == ChannelOfPc(starts[s].pc)
           last == starts[s].pc = "add_assigned"
       IN  /\ conns' = [ conns EXCEPT ![listener_conn].callbacks =
                           @ \cup { <<channel, CallbackOf(channel), s>> } ]
           /\ starts' = [ starts EXCEPT
                            ![s].pc = NextChannelPc(@),
                            ![s].result = IF last THEN "started" ELSE @ ]
           /\ listening' = IF last THEN TRUE ELSE listening
           /\ keep_alive' = IF last THEN keep_alive \cup {s} ELSE keep_alive
    /\ UNCHANGED <<listener_conn, notifs, tasks, stopped_on_error>>
    /\ UNCHANGED outsideListener

\* add_listener raises (the connection is gone, or the statement failed on a
\* connection that stays open): the except clause logs and the call returns.
AddListenerFail(s, dies) ==
    /\ starts[s].pc \in AddPcs
    /\ conns[listener_conn].alive \/ dies
    /\ conns' = [ conns EXCEPT ![listener_conn].alive = @ /\ ~dies ]
    /\ starts' = [ starts EXCEPT ![s].pc = "done", ![s].result = "error_logged" ]
    /\ UNCHANGED <<listening, listener_conn, keep_alive, notifs, tasks,
                   stopped_on_error>>
    /\ UNCHANGED outsideListener

\* _keep_pg_alive: after the sleep, execute("SELECT 1") raises.  A round-trip
\* that succeeds changes nothing and is a stuttering step.
keep_pg_alive_failBuggy(s, dies) ==
    /\ s \in keep_alive
    /\ conns[listener_conn].alive \/ dies
    /\ conns' = [ conns EXCEPT ![listener_conn].alive = @ /\ ~dies ]
    /\ listening' = ~listening
    /\ keep_alive' = keep_alive \ {s}
    /\ stopped_on_error' = TRUE
    /\ UNCHANGED <<listener_conn, starts, notifs, tasks>>
    /\ UNCHANGED outsideListener

keep_pg_alive_fail(s, dies) ==
    /\ s \in keep_alive
    /\ conns[listener_conn].alive \/ dies
    /\ conns' = [ conns EXCEPT ![listener_conn].alive = @ /\ ~dies ]
    /\ listening' = FALSE
    /\ keep_alive' = keep_alive \ {s}
    /\ stopped_on_error' = TRUE
    /\ UNCHANGED <<listener_conn, starts, notifs, tasks>>
    /\ UNCHANGED outsideListener

\* The network drops a connection.
ConnLost(k) ==
    /\ k \in OpenedConns
    /\ conns[k].alive
    /\ conns' = [ conns EXCEPT ![k].alive = FALSE ]
    /\ UNCHANGED <<listening, listener_conn, starts, keep_alive, notifs, tasks,
                   stopped_on_error>>
    /\ UNCHANGED outsideListener

\* The callbacks a NOTIFY on `channel` reaches, in a fixed order.
Reached(channel) ==
    { <<k, cb>> \in OpenedConns \X UNION { conns[j].callbacks : j \in OpenedConns } :
        /\ conns[k].alive
        /\ cb \in conns[k].callbacks
        /\ cb[1] = channel }

RECURSIVE TasksFor(_, _, _)
TasksFor(reached, n, payload) ==
    IF reached = {} THEN <<>>
    ELSE LET x == CHOOSE y \in reached : TRUE
         IN  << [ notif |-> n, conn |-> x[1], starter |-> x[2][3],
                  channel |-> x[2][1], handler |-> HandlerOf(x[2][2]),
                  payload |-> payload, pc |-> "scheduled",
                  discord_id |-> "", message |-> {}, sends |-> 0,
                  outcome |-> None ] >>
             \o TasksFor(reached \ {x}, n, payload)

NotifyBuggy(channel, payload) ==
    /\ notifs < MaxNotifs
    /\ Reached(channel) # {}
    /\ \A t \in DOMAIN tasks : tasks[t].pc = "done"
    /\ notifs' = notifs + 1
    /\ tasks' = tasks \o TasksFor(Reached(channel), notifs + 1, payload)
    /\ UNCHANGED <<listening, listener_conn, conns, starts, keep_alive,
                   stopped_on_error>>
    /\ UNCHANGED outsideListener

\* The database emits NOTIFY channel, payload: every live connection that
\* listens on the channel calls its callbacks, each of which creates one task.
Notify(channel, payload) ==
    /\ notifs < MaxNotifs
    /\ Reached(channel) # {}
    /\ notifs' = notifs + 1
    /\ tasks' = tasks \o TasksFor(Reached(channel), notifs + 1, payload)
    /\ UNCHANGED <<listening, listener_conn, conns, starts, keep_alive,
                   stopped_on_error>>
    /\ UNCHANGED outsideListener

TaskIds == DOMAIN tasks

\* on_task_*: json.loads, int(data["discord_id"]), data.get("message", {}),
\* up to await self.bot.fetch_user(discord_id).
HandlerParseBuggy(t) ==
    /\ tasks[t].pc = "scheduled"
    /\ LET data == json_loads(tasks[t].payload)
       IN  tasks' = [ tasks EXCEPT ![t] =
             IF ~data.ok
               THEN [ @ EXCEPT !.pc = "done", !.outcome = "error_logged" ]
               ELSE [ @ EXCEPT !.pc = "fetch_user",
                               !.discord_id = data.discord_id,
                               !.message = data.message ] ]
    /\ UNCHANGED <<listening, listener_conn, conns, starts, keep_alive, notifs,
                   stopped_on_error>>
    /\ UNCHANGED outsideListener

HandlerParse(t) ==
    /\ tasks[t].pc = "scheduled"
    /\ LET data == json_loads(tasks[t].payload)
       IN  tasks' = [ tasks EXCEPT ![t] =
             IF \/ ~data.ok
                \/ "discord_id" \notin data.keys
                \/ ~IsInt(data.discord_id)
               THEN [ @ EXCEPT !.pc = "done", !.outcome = "error_logged" ]
               ELSE [ @ EXCEPT !.pc = "fetch_user",
                               !.discord_id = data.discord_id,
                               !.message = IF "message" \in data.keys
                                             THEN data.message ELSE {} ] ]
    /\ UNCHANGED <<listening, listener_conn, conns, starts, keep_alive, notifs,
                   stopped_on_error>>
    /\ UNCHANGED outsideListener

FetchResults == { "user", "none", "raises" }

HandlerFetchedBuggy(t, res) ==
    /\ tasks[t].pc = "fetch_user"
    /\ tasks' = [ tasks EXCEPT ![t] =
         CASE res = "user" -> [ @ EXCEPT !.pc = "send" ]
           [] res = "none" -> [ @ EXCEPT !.pc = "done", !.outcome = "user_not_found" ]
           [] res = "raises" -> [ @ EXCEPT !.pc = "done", !.outcome = "raised" ] ]
    /\ listening' = (listening /\ res # "raises")
    /\ UNCHANGED <<listener_conn, conns, starts, keep_alive, notifs,
                   stopped_on_error>>
    /\ UNCHANGED outsideListener

\* await self.bot.fetch_user(discord_id) comes back; the embed is built.
HandlerFetched(t, res) ==
    /\ tasks[t].pc = "fetch_user"
    /\ tasks' = [ tasks EXCEPT ![t] =
         CASE res = "user" -> [ @ EXCEPT !.pc = "send" ]
           [] res = "none" -> [ @ EXCEPT !.pc = "done", !.outcome = "user_not_found" ]
           [] res = "raises" -> [ @ EXCEPT !.pc = "done", !.outcome = "error_logged" ] ]
    /\ UNCHANGED <<listening, listener_conn, conns, starts, keep_alive, notifs,
                   stopped_on_error>>
    /\ UNCHANGED outsideListener

HandlerSentBuggy(t, ok) ==
    /\ tasks[t].pc = "send"
    /\ ok \/ tasks[t].sends < 2
    /\ tasks' = [ tasks EXCEPT ![t].pc = IF ok THEN "done" ELSE "send",
                               ![t].sends = @ + 1,
                               ![t].outcome = IF ok THEN "sent" ELSE "error_logged" ]
    /\ UNCHANGED <<listening, listener_conn, conns, starts, keep_alive, notifs,
                   stopped_on_error>>
    /\ UNCHANGED outsideListener

\* await user.send(embed=embed) comes back: sent, or it raised and the except
\* clause logged the error.
HandlerSent(t, ok) ==
    /\ tasks[t].pc = "send"
    /\ tasks' = [ tasks EXCEPT ![t].pc = "done",
                               ![t].sends = @ + 1,
                               ![t].outcome = IF ok THEN "sent" ELSE "error_logged" ]
    /\ UNCHANGED <<listening, listener_conn, conns, starts, keep_alive, notifs,
                   stopped_on_error>>
    /\ UNCHANGED outsideListener

ListenerInit ==
    /\ listening = FALSE
    /\ listener_conn = NoConn
    /\ conns = <<>>
    /\ starts = [ s \in StartIds |-> IdleStart ]
    /\ keep_alive = {}
    /\ notifs = 0
    /\ tasks = <<>>
    /\ stopped_on_error = FALSE

\* The calls and tasks of the Listener itself, for the start calls in S.
LifecycleNext(S) ==
    \/ \E s \in S : StartCall(s)
    \/ \E s \in S : Connect(s)
    \/ \E s \in S : ConnectFail(s)
    \/ \E s \in S : AddListener(s)
    \/ \E s \in S, dies \in BOOLEAN : AddListenerFail(s, dies)
    \/ \E s \in S, dies \in BOOLEAN : keep_pg_alive_fail(s, dies)
    \/ \E k \in OpenedConns : ConnLost(k)

\* Notifications and the handler tasks they start.
DispatchNext ==
    \/ \E c \in Channels, p \in Payloads : Notify(c, p)
    \/ \E t \in TaskIds : HandlerParse(t)
    \/ \E t \in TaskIds, res \in FetchResults : HandlerFetched(t, res)
    \/ \E t \in TaskIds, ok \in BOOLEAN : HandlerSent(t, ok)

ListenerNext == LifecycleNext(StartIds) \/ DispatchNext

\* =========================================================== CALENDAR SIDE

CalendarRequestIds == 1 .. MaxRequests

\* ---- the bodies Google (or anyone) posts, and json.loads on them
CalSync ==
    "{\"id\":\"wh-1\",\"channelId\":\"ch-1\",\"resourceId\":\"res-1\",\"type\":\"sync\",\"calendarId\":\"cal-1\"}"

CalUpdate ==
    "{\"id\":\"wh-2\",\"channelId\":\"ch-1\",\"resourceId\":\"res-1\",\"type\":\"update\",\"calendarId\":\"cal-1\",\"eventId\":\"ev-1\"}"

CalUnknownType ==
    "{\"id\":\"wh-3\",\"channelId\":\"ch-1\",\"resourceId\":\"res-1\",\"type\":\"exists\"}"

CalInvalidJson == "{\"id\":"

CalNotObject == "[1]"

CalendarBodies == { CalSync, CalUpdate, CalUnknownType, CalInvalidJson, CalNotObject }

\* json.loads(body): whether it parses, whether the value is an object, and
\* the object.
json_loads_body(body) ==
    CASE body = CalSync ->
           [ ok |-> TRUE, object |-> TRUE,
             data |-> [ id |-> "wh-1", channelId |-> "ch-1", resourceId |-> "res-1",
                        type |-> "sync", calendarId |-> "cal-1" ] ]
      [] body = CalUpdate ->
           [ ok |-> TRUE, object |-> TRUE,
             data |-> [ id |-> "wh-2", channelId |-> "ch-1", resourceId |-> "res-1",
                        type |-> "update", calendarId |-> "cal-1",
                        eventId |-> "ev-1" ] ]
      [] body = CalUnknownType ->
           [ ok |-> TRUE, object |-> TRUE,
             data |-> [ id |-> "wh-3", channelId |-> "ch-1", resourceId |-> "res-1",
                        type |-> "exists" ] ]
      [] body = CalNotObject ->
           [ ok |-> TRUE, object |-> FALSE, data |-> EmptyDict ]
      [] OTHER ->
           [ ok |-> FALSE, object |-> FALSE, data |-> EmptyDict ]

JSONDecodeErrorBuggy(body) == FALSE

\* json.loads raises JSONDecodeError (webhooks.py:25, caught at :54).
JSONDecodeError(body) == ~json_loads_body(body).ok

webhook_id_of(body) == Get(json_loads_body(body).data, "id", None)

event_type_of(body) == Get(json_loads_body(body).data, "type", "sync")

calendar_id_of(body) == Get(json_loads_body(body).data, "calendarId", None)

IdleCalendarRequest ==
    [ pc |-> "idle", body |-> None, stored |-> FALSE, store_failed |-> FALSE,
      processing |-> None, outcome |-> None ]

\* The CalendarWebhookEvent built at webhooks.py:78-88.
NewCalendarEvent(body) ==
    [ webhook_id |-> webhook_id_of(body),
      channel_id |-> Get(json_loads_body(body).data, "channelId", None),
      resource_id |-> Get(json_loads_body(body).data, "resourceId", None),
      calendar_id |-> Get(json_loads_body(body).data, "calendarId", ""),
      event_type |-> event_type_of(body),
      processed |-> FALSE, error_message |-> None, retry_count |-> 0 ]

\* The INSERT is refused: webhook_id is unique, and webhook_id, channel_id and
\* resource_id are NOT NULL.
CalendarIntegrityError(e) ==
    \/ e.webhook_id = None \/ e.channel_id = None \/ e.resource_id = None
    \/ \E f \in calendar_webhook_events : f.webhook_id = e.webhook_id

\* What handle_calendar_webhook does once store_webhook_event has returned
\* (webhooks.py:44-52), up to its next await: process_sync_webhook and
\* process_event_webhook return at once without a calendarId, an unknown type
\* is only logged, and in both cases the handler answers.
AfterStore(req) ==
    IF /\ event_type_of(req.body) \in { "sync", "create", "update", "delete" }
       /\ calendar_id_of(req.body) # None
      THEN [ req EXCEPT !.pc = "process" ]
      ELSE [ req EXCEPT !.pc = "done", !.outcome = "success" ]

\* handle_calendar_webhook is called: it reads and parses the body and runs
\* store_webhook_event up to await db.commit().
CalendarReceive(r, body) ==
    /\ calendar_requests[r].pc = "idle"
    /\ \A q \in CalendarRequestIds : q < r => calendar_requests[q].pc # "idle"
    /\ calendar_requests' =
         [ calendar_requests EXCEPT ![r] =
             IF JSONDecodeError(body)
               THEN [ @ EXCEPT !.body = body, !.pc = "done", !.outcome = "http_400" ]
             ELSE IF ~json_loads_body(body).object
               THEN [ @ EXCEPT !.body = body, !.pc = "done", !.outcome = "http_500" ]
             ELSE [ @ EXCEPT !.body = body, !.pc = "store" ] ]
    /\ UNCHANGED calendar_webhook_events
    /\ UNCHANGED outsideCalendar

\* await db.commit() of store_webhook_event returns: the row is stored, or the
\* INSERT is refused and the except branch logs and rolls back.  Either way
\* store_webhook_event returns None and the handler goes on.
CalendarStore(r) ==
    /\ calendar_requests[r].pc = "store"
    /\ LET e == NewCalendarEvent(calendar_requests[r].body)
       IN  IF CalendarIntegrityError(e)
             THEN /\ calendar_requests' =
                       [ calendar_requests EXCEPT ![r] = AfterStore(@) ]
                  /\ UNCHANGED calendar_webhook_events
             ELSE /\ calendar_webhook_events' = calendar_webhook_events \cup {e}
                  /\ calendar_requests' =
                       [ calendar_requests EXCEPT ![r] =
                           AfterStore([ @ EXCEPT !.stored = TRUE ]) ]
    /\ UNCHANGED outsideCalendar

\* await db.commit() while the store cannot be reached: the except branch of
\* store_webhook_event logs the error and rolls back; nothing is raised.
CalendarStoreError(r) ==
    /\ calendar_requests[r].pc = "store"
    /\ calendar_requests' =
         [ calendar_requests EXCEPT ![r] =
             AfterStore([ @ EXCEPT !.store_failed = TRUE ]) ]
    /\ UNCHANGED calendar_webhook_events
    /\ UNCHANGED outsideCalendar

ProcessingResults == { "completed", "error_logged" }

\* The awaited process_sync_webhook / process_event_webhook ends (it catches
\* its own exceptions) and the handler returns {"status": "success"}.
CalendarProcess(r, result) ==
    /\ calendar_requests[r].pc = "process"
    /\ calendar_requests' =
         [ calendar_requests EXCEPT ![r].pc = "done",
                                    ![r].processing = result,
                                    ![r].outcome = "success" ]
    /\ UNCHANGED calendar_webhook_events
    /\ UNCHANGED outsideCalendar

CalendarInit ==
    /\ calendar_webhook_events = {}
    /\ calendar_requests = [ r \in CalendarRequestIds |-> IdleCalendarRequest ]

CalendarNext ==
    \/ \E r \in CalendarRequestIds, b \in CalendarBodies : CalendarReceive(r, b)
    \/ \E r \in CalendarRequestIds : CalendarStore(r)
    \/ \E r \in CalendarRequestIds : CalendarStoreError(r)
    \/ \E r \in CalendarRequestIds, res \in ProcessingResults : CalendarProcess(r, res)

\* ====================================================== SUBSCRIPTION SIDE

RepoInputs == { "org/repo", "org/other", "org/unknown" }

\* discord.TextChannel.id of the channel named in a command.
ChannelIds == { 111, 222 }

\* str(channel_id)
str(channel_id) ==
    CASE channel_id = 111 -> "111"
      [] channel_id = 222 -> "222"

ChannelIdStrings == { str(c) : c \in ChannelIds }

UserIds == { "user-1", "user-2" }

CalendarIdInputs == { "cal-1", "cal-9" }

NoCall ==
    [ op |-> None, source |-> None, target |-> None, known |-> FALSE,
      matched |-> FALSE, result |-> None, reply |-> None ]

\* select(GitHubRepository).filter_by(full_name=repo) ... scalar_one() finds a row.
RepositoryFound(repo) == repo \in DOMAIN github_repositories

\* subscribe_channel on a row that exists (operations.py:66-69).
subscribe_channel(repositories, repo, channel_id) ==
    [ repositories EXCEPT ![repo].notification_channel_id = str(channel_id),
                          ![repo].is_active = TRUE ]

unsubscribe_channelBuggy(repositories, repo, channel_id) ==
    [ repositories EXCEPT ![repo].notification_channel_id = None ]

\* unsubscribe_channel on a row that exists (operations.py:87-93).
unsubscribe_channel(repositories, repo, channel_id) ==
    IF repositories[repo].notification_channel_id = str(channel_id)
      THEN [ repositories EXCEPT ![repo].notification_channel_id = None ]
      ELSE repositories

\* /github-subscribe: subscribe_channel returns None or raises ValueError for
\* a repository that is not in the table; the command answers with a success
\* line unless an exception reached it.
github_subscribe(repo, channel_id) ==
    /\ IF RepositoryFound(repo)
         THEN /\ github_repositories' =
                    subscribe_channel(github_repositories, repo, channel_id)
              /\ last_call' =
                    [ op |-> "github_subscribe", source |-> repo,
                      target |-> str(channel_id), known |-> TRUE,
                      matched |->
                        (github_repositories[repo].notification_channel_id
                           = str(channel_id)),
                      result |-> "None", reply |-> "success" ]
         ELSE /\ UNCHANGED github_repositories
              /\ last_call' =
                    [ op |-> "github_subscribe", source |-> repo,
                      target |-> str(channel_id), known |-> FALSE,
                      matched |-> FALSE,
                      result |-> "ValueError", reply |-> "failed" ]
    /\ UNCHANGED google_calendars
    /\ UNCHANGED outsideSubscriptions

\* /github-unsubscribe: unsubscribe_channel returns None whether or not it
\* cleared the field, and raises ValueError for an unknown repository.
github_unsubscribe(repo, channel_id) ==
    /\ IF RepositoryFound(repo)
         THEN /\ github_repositories' =
                    unsubscribe_channel(github_repositories, repo, channel_id)
              /\ last_call' =
                    [ op |-> "github_unsubscribe", source |-> repo,
                      target |-> str(channel_id), known |-> TRUE,
                      matched |->
                        (github_repositories[repo].notification_channel_id
                           = str(channel_id)),
                      result |-> "None", reply |-> "success" ]
         ELSE /\ UNCHANGED github_repositories
              /\ last_call' =
                    [ op |-> "github_unsubscribe", source |-> repo,
                      target |-> str(channel_id), known |-> FALSE,
                      matched |-> FALSE,
                      result |-> "ValueError", reply |-> "failed" ]
    /\ UNCHANGED google_calendars
    /\ UNCHANGED outsideSubscriptions

\* The WHERE clause of subscribe_calendar_to_discord matches a row.
CalendarFound(user_id, calendar_id) ==
    /\ calendar_id \in DOMAIN google_calendars
    /\ google_calendars[calendar_id].user_id = user_id

\* /calendar-subscribe: subscribe_calendar_to_discord returns True, or False
\* when no row matches; the command answers by that value.
calendar_subscribe(user_id, calendar_id, discord_channel_id) ==
    /\ IF CalendarFound(user_id, calendar_id)
         THEN /\ google_calendars' =
                    [ google_calendars EXCEPT
                        ![calendar_id].discord_channel_id = discord_channel_id,
                        ![calendar_id].is_active = TRUE ]
              /\ last_call' =
                    [ op |-> "calendar_subscribe", source |-> calendar_id,
                      target |-> discord_channel_id, known |-> TRUE,
                      matched |->
                        (google_calendars[calendar_id].discord_channel_id
                           = discord_channel_id),
                      result |-> "True", reply |-> "success" ]
         ELSE /\ UNCHANGED google_calendars
              /\ last_call' =
                    [ op |-> "calendar_subscribe", source |-> calendar_id,
                      target |-> discord_channel_id, known |-> FALSE,
                      matched |-> FALSE,
                      result |-> "False", reply |-> "failed" ]
    /\ UNCHANGED github_repositories
    /\ UNCHANGED outsideSubscriptions

\* /calendar-unsubscribe: the WHERE clause of unsubscribe_calendar_from_discord
\* also asks for discord_channel_id to be the caller's channel.
calendar_unsubscribe(user_id, calendar_id, discord_channel_id) ==
    /\ IF /\ CalendarFound(user_id, calendar_id)
          /\ google_calendars[calendar_id].discord_channel_id = discord_channel_id
         THEN /\ google_calendars' =
                    [ google_calendars EXCEPT
                        ![calendar_id].discord_channel_id = None ]
              /\ last_call' =
                    [ op |-> "calendar_unsubscribe", source |-> calendar_id,
                      target |-> discord_channel_id, known |-> TRUE,
                      matched |-> TRUE,
                      result |-> "True", reply |-> "success" ]
         ELSE /\ UNCHANGED google_calendars
              /\ last_call' =
                    [ op |-> "calendar_unsubscribe", source |-> calendar_id,
                      target |-> discord_channel_id,
                      known |-> CalendarFound(user_id, calendar_id),
                      matched |-> FALSE,
                      result |-> "False", reply |-> "failed" ]
    /\ UNCHANGED github_repositories
    /\ UNCHANGED outsideSubscriptions

\* The rows a registration step has made: two repositories, one of them
\* deactivated, and one calendar of user-1; none has a target yet.
SubscriptionInit ==
    /\ github_repositories =
         [ repo \in { "org/repo", "org/other" } |->
             [ notification_channel_id |-> None, is_active |-> (repo = "org/repo") ] ]
    /\ google_calendars =
         [ c \in { "cal-1" } |->
             [ user_id |-> "user-1", discord_channel_id |-> None, is_active |-> TRUE ] ]
    /\ last_call = NoCall

SubscriptionNext ==
    \/ \E repo \in RepoInputs, ch \in ChannelIds : github_subscribe(repo, ch)
    \/ \E repo \in RepoInputs, ch \in ChannelIds : github_unsubscribe(repo, ch)
    \/ \E u \in UserIds, c \in CalendarIdInputs, ch \in ChannelIdStrings :
          calendar_subscribe(u, c, ch)
    \/ \E u \in UserIds, c \in CalendarIdInputs, ch \in ChannelIdStrings :
          calendar_unsubscribe(u, c, ch)

\* ============================================================ NOTION SIDE

CreateIds == 1 .. MaxCreates

\* timedelta(seconds=60) at commands/notion.py:139.
DedupWindow == 60

TaskNames == { "Fix bug", " Fix bug ", "Write docs", "   " }

\* task_name.strip()
strip(task_name) ==
    CASE task_name = " Fix bug " -> "Fix bug"
      [] task_name = "   " -> ""
      [] OTHER -> task_name

UserIdInputs == { "123456789012345678", "<@123456789012345678>", "42" }

\* discord_user_id.strip() with the <@...> / <@!...> wrapping of a mention
\* taken off (notion.py:102-106).
target_discord_id(discord_user_id) ==
    CASE discord_user_id = "<@123456789012345678>" -> "123456789012345678"
      [] OTHER -> discord_user_id

\* isdigit() and 17 <= len <= 20 (notion.py:109).
IsDiscordId(s) == s = "123456789012345678"

IdleCreate ==
    [ pc |-> "idle", title |-> None, discord_user_id |-> None, called_at |-> 0,
      external_calls |-> 0, named |-> 0, row_id |-> 0, outcome |-> None ]

recent_cutoffBuggy(t) == t

\* recent_cutoff = datetime.utcnow() - timedelta(seconds=60)
recent_cutoff(t) == t - DedupWindow

\* The rows the duplicate check selects (notion.py:141-147).
duplicate_check(title, discord_user_id, cutoff) ==
    { t \in notion_tasks :
        /\ t.title = title
        /\ t.discord_user_id = discord_user_id
        /\ t.created_at > cutoff }

CreateInFlight(c) == create_requests[c].pc \notin { "idle", "done" }

\* /notion task create is run: the inputs are validated and the duplicate
\* check is sent with the cutoff taken from the clock at that moment.
CreateTask(c, task_name, discord_user_id) ==
    /\ create_requests[c].pc = "idle"
    /\ \A q \in CreateIds : q < c => create_requests[q].pc # "idle"
    /\ create_requests' =
         [ create_requests EXCEPT ![c] =
             IF strip(task_name) = "" \/ ~IsDiscordId(target_discord_id(discord_user_id))
               THEN [ @ EXCEPT !.pc = "done", !.outcome = "rejected",
                               !.called_at = utcnow ]
               ELSE [ @ EXCEPT !.pc = "check",
                               !.title = strip(task_name),
                               !.discord_user_id = target_discord_id(discord_user_id),
                               !.called_at = utcnow ] ]
    /\ UNCHANGED <<notion_tasks, next_task_id, notion_pages, utcnow>>
    /\ UNCHANGED outsideNotion

\* The duplicate check returns: scalar_one_or_none() gives the one matching
\* row, None, or raises MultipleResultsFound when several rows match.
DuplicateCheck(c) ==
    /\ create_requests[c].pc = "check"
    /\ LET found == duplicate_check(create_requests[c].title,
                                    create_requests[c].discord_user_id,
                                    recent_cutoff(create_requests[c].called_at))
       IN  create_requests' =
             [ create_requests EXCEPT ![c] =
                 IF Cardinality(found) > 1
                   THEN [ @ EXCEPT !.pc = "done", !.outcome = "failed" ]
                 ELSE IF found # {}
                   THEN [ @ EXCEPT !.pc = "done", !.outcome = "duplicate",
                                   !.named = (CHOOSE t \in found : TRUE).id ]
                 ELSE [ @ EXCEPT !.pc = "notion" ] ]
    /\ UNCHANGED <<notion_tasks, next_task_id, notion_pages, utcnow>>
    /\ UNCHANGED outsideNotion

\* await notion_client.create_task(...): the page is made, or the call fails
\* and the command answers "Failed to create task".
NotionCreate(c, ok) ==
    /\ create_requests[c].pc = "notion"
    /\ IF ok
         THEN /\ notion_pages' = notion_pages + 1
              /\ create_requests' =
                    [ create_requests EXCEPT ![c].pc = "save",
                                             ![c].external_calls = @ + 1 ]
         ELSE /\ UNCHANGED notion_pages
              /\ create_requests' =
                    [ create_requests EXCEPT ![c].pc = "done",
                                             ![c].external_calls = @ + 1,
                                             ![c].outcome = "failed" ]
    /\ UNCHANGED <<notion_tasks, next_task_id, utcnow>>
    /\ UNCHANGED outsideNotion

\* session.commit() of the new NotionTask; created_at is the store's now().
SaveTask(c) ==
    /\ create_requests[c].pc = "save"
    /\ notion_tasks' = notion_tasks \cup
          { [ id |-> next_task_id,
              title |-> create_requests[c].title,
              discord_user_id |-> create_requests[c].discord_user_id,
              created_at |-> utcnow ] }
    /\ next_task_id' = next_task_id + 1
    /\ create_requests' =
          [ create_requests EXCEPT ![c].pc = "done",
                                   ![c].row_id = next_task_id,
                                   ![c].outcome = "created" ]
    /\ UNCHANGED <<notion_pages, utcnow>>
    /\ UNCHANGED outsideNotion

\* Time passes.
Tick ==
    /\ utcnow < MaxTicks * TickSeconds
    /\ utcnow' = utcnow + TickSeconds
    /\ UNCHANGED <<notion_tasks, next_task_id, notion_pages, create_requests>>
    /\ UNCHANGED outsideNotion

NotionInit ==
    /\ notion_tasks = {}
    /\ next_task_id = 1
    /\ notion_pages = 0
    /\ create_requests = [ c \in CreateIds |-> IdleCreate ]
    /\ utcnow = 0

\* The steps of the create commands once they are running.
CreateSteps ==
    \/ \E c \in CreateIds : DuplicateCheck(c)
    \/ \E c \in CreateIds, ok \in BOOLEAN : NotionCreate(c, ok)
    \/ \E c \in CreateIds : SaveTask(c)
    \/ Tick

\* Create commands run one after another: each starts when none is running.
SequentialCreates ==
    \/ /\ \A q \in CreateIds : ~CreateInFlight(q)
       /\ \E c \in CreateIds, n \in TaskNames, u \in UserIdInputs : CreateTask(c, n, u)
    \/ CreateSteps

\* Create commands of several users' interactions, in any interleaving.
NotionNext ==
    \/ \E c \in CreateIds, n \in TaskNames, u \in UserIdInputs : CreateTask(c, n, u)
    \/ CreateSteps

\* ====================================================== TASK STATUS SIDE

TaskRowIds == 1 .. MaxTaskRows

\* class TaskStatus(str, Enum): member name -> value (models/notion.py:22-29).
TaskStatus ==
    [ NOT_STARTED |-> "Not started",
      ON_HOLD     |-> "On hold",
      IN_PROGRESS |-> "In progress",
      DONE        |-> "Done",
      CANCELLED   |-> "Cancelled" ]

TaskStatusValues == { TaskStatus[m] : m \in DOMAIN TaskStatus }

\* What an UPDATE may write into the String(50) status column: the values of
\* TaskStatus and the literal the trigger functions compare with.
StatusValues == TaskStatusValues \cup { "completed" }

AssigneeValues == { None, "123456789012345678" }

AbsentRow ==
    [ present |-> FALSE, notion_page_id |-> None, status |-> None,
      assignee_discord_id |-> None, sync_status |-> None, error_message |-> None ]

\* The id Notion gave the page of row r, as stored in notion_page_id.
PageIdOf(r) == <<"page", r, "dashed">>

\* OLD.x IS DISTINCT FROM NEW.x, with None for NULL.
IsDistinctFrom(a, b) == a # b

notify_task_updateBuggy(OLDROW, NEWROW) ==
    IsDistinctFrom(OLDROW.status, NEWROW.status)

\* IF NEW.status != 'completed' AND OLD.status IS DISTINCT FROM NEW.status
\* THEN pg_notify('task_update', ...)   (database.py:63-75)
notify_task_update(OLDROW, NEWROW) ==
    NEWROW.status # "completed" /\ IsDistinctFrom(OLDROW.status, NEWROW.status)

\* IF NEW.status = 'completed' AND OLD.status IS DISTINCT FROM NEW.status
\* THEN pg_notify('task_completed', ...)   (database.py:88-100)
notify_task_completed(OLDROW, NEWROW) ==
    NEWROW.status = "completed" /\ IsDistinctFrom(OLDROW.status, NEWROW.status)

\* The WHEN clause of task_completed_trigger (database.py:174).
task_completed_trigger_when(OLDROW, NEWROW) ==
    NEWROW.status = "completed" /\ IsDistinctFrom(OLDROW.status, NEWROW.status)

\* notify_task_assigned (database.py:115-131).
notify_task_assigned(TG_OP, OLDROW, NEWROW) ==
    \/ TG_OP = "INSERT" /\ NEWROW.assignee_discord_id # None
    \/ /\ TG_OP = "UPDATE"
       /\ IsDistinctFrom(OLDROW.assignee_discord_id, NEWROW.assignee_discord_id)
       /\ NEWROW.assignee_discord_id # None

\* The channels notified by the AFTER triggers of one row: task_assigned_trigger
\* is AFTER INSERT OR UPDATE, the other two are AFTER UPDATE.
TriggersFire(TG_OP, OLDROW, NEWROW) ==
    { c \in { "task_update", "task_completed", "task_assigned" } :
        \/ c = "task_assigned" /\ notify_task_assigned(TG_OP, OLDROW, NEWROW)
        \/ c = "task_update" /\ TG_OP = "UPDATE" /\ notify_task_update(OLDROW, NEWROW)
        \/ /\ c = "task_completed"
           /\ TG_OP = "UPDATE"
           /\ task_completed_trigger_when(OLDROW, NEWROW)
           /\ notify_task_completed(OLDROW, NEWROW) }

StatementOf(TG_OP, r, OLDROW, NEWROW) ==
    [ op |-> TG_OP, id |-> r, old_status |-> OLDROW.status, new_status |-> NEWROW.status,
      channels |-> TriggersFire(TG_OP, OLDROW, NEWROW) ]

NoStatement ==
    [ op |-> None, id |-> 0, old_status |-> None, new_status |-> None,
      channels |-> {} ]

\* A row of notion_tasks is inserted (by the create command or a sync).
InsertRow(r, status, assignee) ==
    /\ ~task_rows[r].present
    /\ \A q \in TaskRowIds : q < r => task_rows[q].present
    /\ LET NEWROW == [ present |-> TRUE, notion_page_id |-> PageIdOf(r),
                    status |-> status, assignee_discord_id |-> assignee,
                    sync_status |-> "pending", error_message |-> None ]
       IN  /\ task_rows' = [ task_rows EXCEPT ![r] = NEWROW ]
           /\ last_statement' = StatementOf("INSERT", r, task_rows[r], NEWROW)
    /\ UNCHANGED last_update_call
    /\ UNCHANGED outsideTasks

\* UPDATE notion_tasks SET status = ..., assignee_discord_id = ... WHERE id = r
UpdateRow(r, status, assignee) ==
    /\ task_rows[r].present
    /\ LET NEWROW == [ task_rows[r] EXCEPT !.status = status,
                                        !.assignee_discord_id = assignee ]
       IN  /\ task_rows' = [ task_rows EXCEPT ![r] = NEWROW ]
           /\ last_statement' = StatementOf("UPDATE", r, task_rows[r], NEWROW)
    /\ UNCHANGED last_update_call
    /\ UNCHANGED outsideTasks

TaskIdInputs ==
    { PageIdOf(r) : r \in TaskRowIds }
      \cup { <<"page", r, "undashed">> : r \in TaskRowIds }
      \cup { <<"page", 0, "dashed">> }

StatusInputs ==
    { "Not started", "On hold", "In progress", "Cancelled", "Done", "Finished" }

\* status.lower()
lower(status) ==
    CASE status = "Not started" -> "not started"
      [] status = "On hold" -> "on hold"
      [] status = "In progress" -> "in progress"
      [] status = "Cancelled" -> "cancelled"
      [] status = "Done" -> "done"
      [] OTHER -> "finished"

\* The members of TaskStatus the dict literal valid_statuses names
\* (commands/notion.py:266-272).
valid_statuses ==
    [ not_started |-> "NOT_STARTED",
      on_hold     |-> "ON_HOLD",
      in_progress |-> "IN_PROGRESS",
      cancelled   |-> "CANCELLED",
      done        |-> "COMPLETED" ]

\* Building the dict evaluates every TaskStatus.<member> it names; a name that
\* is no member of the enum raises AttributeError.
AttributeError ==
    \E k \in DOMAIN valid_statuses : valid_statuses[k] \notin DOMAIN TaskStatus

KeyOf(status_lower) ==
    CASE status_lower = "not started" -> "not_started"
      [] status_lower = "on hold" -> "on_hold"
      [] status_lower = "in progress" -> "in_progress"
      [] status_lower = "cancelled" -> "cancelled"
      [] status_lower = "done" -> "done"
      [] OTHER -> None

\* The row the three lookups by notion_page_id find (notion.py:286-309):
\* the id as given, then with dashes put in, or with the dashes taken out.
FindTask(notion_task_id) ==
    LET given == { r \in TaskRowIds :
                     task_rows[r].present /\ task_rows[r].notion_page_id = notion_task_id }
        dashed == { r \in TaskRowIds :
                     /\ task_rows[r].present
                     /\ notion_task_id[3] = "undashed"
                     /\ task_rows[r].notion_page_id = <<"page", notion_task_id[2], "dashed">> }
        undashed == { r \in TaskRowIds :
                     /\ task_rows[r].present
                     /\ notion_task_id[3] = "dashed"
                     /\ task_rows[r].notion_page_id = <<"page", notion_task_id[2], "undashed">> }
    IN  IF given # {} THEN given
        ELSE IF notion_task_id[3] = "undashed" THEN dashed
        ELSE undashed

NoUpdateCall == [ task_id |-> <<"page", 0, "none">>, status |-> None, outcome |-> None ]

\* /notion task update task_id status, with notion_ok telling whether the
\* update of the Notion page goes through.
update_task(task_id, status, notion_ok) ==
    IF AttributeError
      THEN \* caught by the outer except: "Failed to update task"
           /\ last_update_call' =
                 [ task_id |-> task_id, status |-> status, outcome |-> "failed" ]
           /\ UNCHANGED <<task_rows, last_statement>>
      ELSE IF KeyOf(lower(status)) = None
        THEN /\ last_update_call' =
                   [ task_id |-> task_id, status |-> status, outcome |-> "invalid_status" ]
             /\ UNCHANGED <<task_rows, last_statement>>
      ELSE IF FindTask(task_id) = {}
        THEN /\ last_update_call' =
                   [ task_id |-> task_id, status |-> status, outcome |-> "not_found" ]
             /\ UNCHANGED <<task_rows, last_statement>>
      ELSE LET r == CHOOSE q \in FindTask(task_id) : TRUE
               new_status == TaskStatus[valid_statuses[KeyOf(lower(status))]]
               NEWROW == [ task_rows[r] EXCEPT
                          !.status = new_status,
                          !.sync_status = IF notion_ok THEN "completed" ELSE "failed",
                          !.error_message = IF notion_ok THEN @ ELSE "notion_error" ]
           IN  /\ task_rows' = [ task_rows EXCEPT ![r] = NEWROW ]
               /\ last_statement' = StatementOf("UPDATE", r, task_rows[r], NEWROW)
               /\ last_update_call' =
                     [ task_id |-> task_id, status |-> status, outcome |-> "updated" ]

UpdateTask(task_id, status, notion_ok) ==
    /\ update_task(task_id, status, notion_ok)
    /\ UNCHANGED outsideTasks

TaskInit ==
    /\ task_rows = [ r \in TaskRowIds |-> AbsentRow ]
    /\ last_statement = NoStatement
    /\ last_update_call = NoUpdateCall

\* Statements on the rows of notion_tasks, from any writer.
TriggerNext ==
    \/ \E r \in TaskRowIds, st \in StatusValues, a \in AssigneeValues : InsertRow(r, st, a)
    \/ \E r \in TaskRowIds, st \in StatusValues, a \in AssigneeValues : UpdateRow(r, st, a)

\* Rows are made, and the update command is run on them.
UpdateNext ==
    \/ \E r \in TaskRowIds, st \in TaskStatusValues, a \in AssigneeValues : InsertRow(r, st, a)
    \/ \E t \in TaskIdInputs, st \in StatusInputs, ok \in BOOLEAN : UpdateTask(t, st, ok)

TaskNext == TriggerNext \/ UpdateNext

\* ============================================================ THE PROGRAM

vars ==
    <<webhookVars, listenerVars, calendarVars, subscriptionVars, notionVars,
      taskVars>>

Init ==
    /\ WebhookInit
    /\ ListenerInit
    /\ CalendarInit
    /\ SubscriptionInit
    /\ NotionInit
    /\ TaskInit

Next ==
    \/ WebhookNext
    \/ \E e \in github_webhook_events : ProcessAgain(e)
    \/ ListenerNext
    \/ CalendarNext
    \/ SubscriptionNext
    \/ NotionNext
    \/ TaskNext

Spec == Init /\ [][Next]_vars

\* The webhook server process alone (src/webhook_server.py).
SpecWebhook == Init /\ [][WebhookNext]_vars

\* The Listener under any callers of start_postgres_listener, notifications
\* left aside.
LifecycleOnly == LifecycleNext(StartIds)

SpecListener == Init /\ [][LifecycleOnly]_vars

\* The bot process as src/bot/client.py:80-82 runs it: setup_hook makes the one
\* call of start_postgres_listener, then notifications arrive.
SetupHookNext == LifecycleNext({1}) \/ DispatchNext

SpecDispatch == Init /\ [][SetupHookNext]_vars

StartInFlight(s) == starts[s].pc \notin { "idle", "done" }

\* Start calls made one after another: each is made when none is running.
SequentialStarts ==
    \/ /\ \A q \in StartIds : ~StartInFlight(q)
       /\ \E s \in StartIds : StartCall(s)
    \/ \E s \in StartIds : Connect(s)
    \/ \E s \in StartIds : ConnectFail(s)
    \/ \E s \in StartIds : AddListener(s)
    \/ \E s \in StartIds, dies \in BOOLEAN : AddListenerFail(s, dies)
    \/ \E s \in StartIds, dies \in BOOLEAN : keep_pg_alive_fail(s, dies)
    \/ \E k \in OpenedConns : ConnLost(k)

SpecRestart == Init /\ [][SequentialStarts]_vars

\* One webhook call and the Event Processor, replays included.
SpecRedrive == Init /\ [][RedriveNext]_vars

\* The calendar webhook endpoint alone.
SpecCalendar == Init /\ [][CalendarNext]_vars

\* The subscribe and unsubscribe commands, one call after another.
SpecSubscriptions == Init /\ [][SubscriptionNext]_vars

\* The task create command, one call after another.
SpecCreate == Init /\ [][SequentialCreates]_vars

\* The task create command under several users' interactions at once.
SpecCreateRace == Init /\ [][NotionNext]_vars

\* INSERT and UPDATE statements on notion_tasks with the triggers installed.
SpecTriggers == Init /\ [][TriggerNext]_vars

\* The task update command on the rows there are.
SpecUpdate == Init /\ [][UpdateNext]_vars

\* ================================================================ CLAIMS

Finished(r) == requests[r].pc = "done"

\* A call that got as far as the INSERT with the store reachable.
Accepted(r) == Finished(r) /\ requests[r].outcome \in { "success", "integrity_error" }

\* C1: however many webhook calls carry one delivery_id, one after the other
\* or at the same time, the table never holds two rows for it, holds exactly
\* one once a call for it has reached the INSERT, and the side effect of
\* processing that delivery happens at most once.
C1_OneRowPerDelivery ==
    \A d \in DeliveryIds :
        /\ Cardinality(RowsOf(d)) <= 1
        /\ (\E r \in RequestIds : Accepted(r) /\ requests[r].delivery_id = d)
              => Cardinality(RowsOf(d)) = 1
        /\ delivered[d] <= 1

\* Two calls with delivery_id "abc-1" have finished, one row is stored and it
\* has been processed once.
C1_Witness ==
    /\ \E r, q \in RequestIds :
          /\ r # q
          /\ Accepted(r) /\ Accepted(q)
          /\ requests[r].delivery_id = "abc-1"
          /\ requests[q].delivery_id = "abc-1"
    /\ Cardinality(RowsOf("abc-1")) = 1
    /\ delivered["abc-1"] = 1

\* C2: an authentic call of a known event type whose delivery_id is empty or
\* already recorded ends in success and stores no row.
C2_DuplicateAbsorbed ==
    \A r \in RequestIds :
        ( /\ Finished(r)
          /\ requests[r].authentic
          /\ requests[r].event_type \in GitHubEventType
          /\ requests[r].outcome # "store_error"
          /\ (requests[r].delivery_id = "" \/ requests[r].recorded_before) )
        => (requests[r].outcome = "success" /\ requests[r].row_id = 0)

\* C3: a call whose signature is not the HMAC of its raw body under the
\* configured secret ends in an authentication error at once, stores no row
\* and leaves nothing to process; a delivery id that only such calls carry
\* has no row.
C3_BadSignatureRejected ==
    /\ \A r \in RequestIds :
          (requests[r].pc # "idle" /\ ~requests[r].authentic)
            => /\ Finished(r)
               /\ requests[r].outcome = "auth_error"
               /\ requests[r].row_id = 0
    /\ \A d \in DeliveryIds :
          (\A r \in RequestIds :
              (requests[r].pc # "idle" /\ requests[r].delivery_id = d)
                => ~requests[r].authentic)
            => (RowsOf(d) = {} /\ delivered[d] = 0)

\* A call with a bad signature has been refused while another, authentic call
\* stored its row.
C3_Witness ==
    \E r, q \in RequestIds :
        /\ Finished(r) /\ ~requests[r].authentic
        /\ requests[r].outcome = "auth_error"
        /\ requests[r].delivery_id = "abc-1"
        /\ RowsOf("abc-1") = {}
        /\ requests[q].outcome = "success"

RowById(rows, id) == CHOOSE e \in rows : e.id = id

\* C10: a failed processing attempt adds exactly 1 to retry_count, stores the
\* error message and leaves processed false (and every other field as it was).
C10_FailureRecorded ==
    [][ \A e \in github_webhook_events, msg \in ErrorMessages :
          ProcessFailure(e, msg) =>
            LET f == RowById(github_webhook_events', e.id)
            IN  /\ f.retry_count = e.retry_count + 1
                /\ f.error_message = msg
                /\ f.processed = FALSE
                /\ f.processed_at = e.processed_at
                /\ f.delivery_id = e.delivery_id ]_vars

\* A row has failed twice and is still pending.
C10_Witness ==
    \E e \in github_webhook_events :
        /\ e.retry_count = 2
        /\ e.error_message = "delivery failed"
        /\ ~e.processed

WellFormed == { WellFormedFull, WellFormedBare }

Malformed == { MissingDiscordId, EmptyDiscordId, InvalidJson }

TasksOf(n) == { t \in TaskIds : tasks[t].notif = n }

ChannelHandler ==
    [ c \in Channels |->
        CASE c = "task_update" -> "on_task_update"
          [] c = "task_completed" -> "on_task_completed"
          [] c = "task_assigned" -> "on_task_assigned" ]

MessageObject(payload) ==
    IF payload = WellFormedFull
      THEN { <<"title", "Fix bug">>, <<"status", "in_progress">> }
      ELSE {}

Recipient(payload) ==
    IF payload = WellFormedFull THEN "123456789012345678" ELSE "42"

\* C4: every notification on one of the three channels makes exactly one
\* handler task, of the handler of its channel; when its payload is well
\* formed the handler goes on with the recipient and the message object that
\* the payload carries.
C4_OneDispatch ==
    \A n \in 1 .. notifs :
        /\ Cardinality(TasksOf(n)) = 1
        /\ \A t \in TasksOf(n) :
              /\ tasks[t].handler = ChannelHandler[tasks[t].channel]
              /\ (tasks[t].payload \in WellFormed /\ tasks[t].pc # "scheduled")
                    => /\ tasks[t].message = MessageObject(tasks[t].payload)
                       /\ tasks[t].discord_id = Recipient(tasks[t].payload)
                       /\ tasks[t].pc = "done" => tasks[t].outcome # None

\* A well-formed task_completed notification has been handled by
\* on_task_completed and delivered.
C4_Witness ==
    \E t \in TaskIds :
        /\ tasks[t].channel = "task_completed"
        /\ tasks[t].payload = WellFormedFull
        /\ tasks[t].handler = "on_task_completed"
        /\ tasks[t].outcome = "sent"

\* C5 as stated: a malformed notification makes no dispatch at all.
C5_NoDispatchForMalformed ==
    \A t \in TaskIds : tasks[t].payload \notin Malformed

\* C5 as amended: a malformed notification still makes its one handler task;
\* that task never gets to fetch_user or send, ends with the error logged, and
\* no handler step touches the Listener's flag, connection, callbacks or
\* keep-alive loop.
C5_MalformedDropped ==
    /\ [] (\A n \in 1 .. notifs : \A t \in TasksOf(n) :
              tasks[t].payload \in Malformed =>
                /\ Cardinality(TasksOf(n)) = 1
                /\ tasks[t].pc \in { "scheduled", "done" }
                /\ tasks[t].pc = "done" => tasks[t].outcome = "error_logged")
    /\ [][ (\E t \in TaskIds : tasks'[t] # tasks[t]) =>
             UNCHANGED <<listening, listener_conn, conns, keep_alive, starts>> ]_vars

\* A malformed notification was dropped, the Listener is still listening and
\* a later well-formed one was delivered.
C5_Witness ==
    /\ listening
    /\ \E t, u \in TaskIds :
          /\ tasks[t].notif < tasks[u].notif
          /\ tasks[t].payload \in Malformed
          /\ tasks[t].outcome = "error_logged"
          /\ tasks[u].payload \in WellFormed
          /\ tasks[u].outcome = "sent"

\* C6: a start call made while the Listener is listening returns at once:
\* it opens no connection, registers no callback and starts no keep-alive.
C6_StartWhileListening ==
    [][ \A s \in StartIds :
          (listening /\ starts[s].pc = "idle" /\ starts'[s].pc # "idle")
            => /\ starts'[s].pc = "done"
               /\ starts'[s].result = "already_listening"
               /\ starts'[s].connects = 0
               /\ UNCHANGED <<listening, listener_conn, conns, keep_alive>> ]_vars

\* A second start call found the Listener listening and did nothing.
C6_Witness ==
    /\ listening
    /\ Len(conns) = 1
    /\ Cardinality(keep_alive) = 1
    /\ \E s \in StartIds : starts[s].result = "already_listening"

C8_KeepAliveFailure ==
    /\ [][ \A s \in StartIds, dies \in BOOLEAN :
             keep_pg_alive_fail(s, dies)
               => /\ ~listening'
                  /\ s \notin keep_alive'
                  /\ keep_alive' \subseteq keep_alive
                  /\ Len(conns') = Len(conns)
                  /\ UNCHANGED <<listener_conn, starts>> ]_vars
    /\ [] (Len(conns) =
             Cardinality({ s \in StartIds :
                             starts[s].connects = 1 /\ ~starts[s].connect_failed }))

\* The keep-alive loop has ended on a failure and nothing reconnected.
C8_Witness ==
    /\ stopped_on_error
    /\ ~listening
    /\ keep_alive = {}
    /\ Len(conns) = 1
    /\ \A s \in StartIds : starts[s].pc \in { "idle", "done" }

\* C9 as stated: after a keep-alive failure the instance is never listening
\* again.
C9_ErrorIsTerminal == stopped_on_error => ~listening

\* C9 as amended: the flag goes from false to true only in the step in which
\* a start call completes its third registration; a keep-alive failure or a
\* lost connection never sets it.
C9_OnlyStartListens ==
    [][ (~listening /\ listening')
          => \E s \in StartIds :
                /\ starts[s].pc = "add_assigned"
                /\ starts'[s].result = "started" ]_vars

\* After a keep-alive failure a later start call made the instance listen
\* again, on a second connection.
C9_Witness ==
    /\ stopped_on_error
    /\ listening
    /\ listener_conn = 2

\* C11: in every step, whatever success and failure outcomes are applied, each
\* stored row is still stored, a row whose processed flag is true keeps it
\* true, and no row's retry_count goes down.
C11_ProcessedIsStable ==
    [][ \A e \in github_webhook_events :
          \E f \in github_webhook_events' :
              /\ f.id = e.id
              /\ e.processed => f.processed
              /\ f.retry_count >= e.retry_count ]_vars

\* A row failed first and was processed afterwards, next to one still pending.
C11_Witness ==
    \E e, f \in github_webhook_events :
        /\ e.processed /\ e.retry_count >= 1
        /\ ~f.processed /\ f.retry_count >= 1

\* C12: once a row is processed no step changes it or performs its delivery
\* again, and a re-drive of it changes no row, no delivery count, no call and
\* no clock.
C12_RedriveIsNoOp ==
    [][ \A e \in github_webhook_events :
          e.processed =>
            /\ e \in github_webhook_events'
            /\ delivered'[e.delivery_id] = delivered[e.delivery_id]
            /\ ProcessAgain(e) =>
                 UNCHANGED <<github_webhook_events, delivered, requests,
                             next_id, now>> ]_vars

\* A row that failed once and then succeeded has been re-driven twice and was
\* delivered once.
C12_Witness ==
    /\ redrives = 2
    /\ \E e \in github_webhook_events :
          /\ e.processed
          /\ e.retry_count = 1
          /\ delivered[e.delivery_id] = 1

\* C13: a processed row has processed_at set and no error_message, also when
\* an earlier attempt failed.
C13_SuccessClearsError ==
    \A e \in github_webhook_events :
        e.processed => (e.processed_at # NoTime /\ e.error_message = None)

\* C14: an authentic call of an event type outside GitHubEventType, with a new
\* delivery id and the store reachable, ends in success with a row whose
\* projections are all empty.
C14_UnknownTypePersisted ==
    \A r \in RequestIds :
        ( /\ Finished(r)
          /\ requests[r].authentic
          /\ requests[r].event_type \notin GitHubEventType
          /\ ~requests[r].recorded_before
          /\ requests[r].outcome # "store_error" )
        => /\ requests[r].outcome = "success"
           /\ \E e \in github_webhook_events :
                 /\ e.id = requests[r].row_id
                 /\ e.title = "" /\ e.body = "" /\ e.branch = ""
                 /\ e.commit_sha = ""
                 /\ e.pull_request_number = NoNumber
                 /\ e.issue_number = NoNumber

CalendarFinished(r) == calendar_requests[r].pc = "done"

CalendarMalformed(r) ==
    /\ calendar_requests[r].pc # "idle"
    /\ ~json_loads_body(calendar_requests[r].body).ok

\* C15: a calendar webhook call whose record could not be persisted ends with
\* a 5xx outcome, never with success.
C15_StoreFailureIsError ==
    \A r \in CalendarRequestIds :
        (CalendarFinished(r) /\ calendar_requests[r].store_failed)
          => calendar_requests[r].outcome = "http_500"

C17_ResponseDoesNotWait ==
    \A r \in CalendarRequestIds :
        calendar_requests[r].pc = "process" => calendar_requests[r].outcome # None

Targets == { None } \cup ChannelIdStrings

\* C18: a tracked source holds one target or none; a subscribe call makes the
\* given channel the target whatever it was before, and an unsubscribe call
\* clears the target when the given channel is the current target and leaves
\* every record as it was otherwise.
C18_OneTarget ==
    /\ [] ( /\ \A repo \in DOMAIN github_repositories :
                 github_repositories[repo].notification_channel_id \in Targets
            /\ \A c \in DOMAIN google_calendars :
                 google_calendars[c].discord_channel_id \in Targets )
    /\ [][ \A repo \in DOMAIN github_repositories, ch \in ChannelIds :
             /\ github_subscribe(repo, ch) =>
                  /\ github_repositories'[repo].notification_channel_id = str(ch)
                  /\ \A other \in DOMAIN github_repositories \ {repo} :
                        github_repositories'[other] = github_repositories[other]
             /\ github_unsubscribe(repo, ch) =>
                  IF github_repositories[repo].notification_channel_id = str(ch)
                    THEN /\ github_repositories'[repo].notification_channel_id = None
                         /\ \A other \in DOMAIN github_repositories \ {repo} :
                               github_repositories'[other] = github_repositories[other]
                    ELSE UNCHANGED <<github_repositories, google_calendars>> ]_vars
    /\ [][ \A c \in DOMAIN google_calendars, ch \in ChannelIdStrings :
             LET u == google_calendars[c].user_id
             IN  /\ calendar_subscribe(u, c, ch) =>
                      google_calendars'[c].discord_channel_id = ch
                 /\ calendar_unsubscribe(u, c, ch) =>
                      IF google_calendars[c].discord_channel_id = ch
                        THEN google_calendars'[c].discord_channel_id = None
                        ELSE UNCHANGED <<github_repositories, google_calendars>> ]_vars

\* Channel 222 replaced channel 111 as the target of org/repo, an unsubscribe
\* call for channel 111 then changed nothing, and org/other lost its target
\* to an unsubscribe call of its own channel.
C18_Witness ==
    /\ github_repositories["org/repo"].notification_channel_id = "222"
    /\ github_repositories["org/other"].notification_channel_id = None
    /\ github_repositories["org/other"].is_active
    /\ last_call.op = "github_unsubscribe"
    /\ last_call.source = "org/repo"
    /\ last_call.target = "111"
    /\ ~last_call.matched

\* C19: every subscribe or unsubscribe call ends with a boolean; a call on an
\* unknown source, and an unsubscribe call whose channel is not the source's
\* current target, ends with false, with nothing raised and no success
\* reported to the caller.
C19_BooleanOutcome ==
    last_call.op # None =>
        /\ last_call.result \in { "True", "False" }
        /\ ~last_call.known =>
              (last_call.result = "False" /\ last_call.reply # "success")
        /\ (last_call.op \in { "github_unsubscribe", "calendar_unsubscribe" }
              /\ ~last_call.matched) =>
              (last_call.result = "False" /\ last_call.reply # "success")

SameKey(c, t) ==
    /\ t.title = create_requests[c].title
    /\ t.discord_user_id = create_requests[c].discord_user_id

\* The rows made by the create commands that ran before c.
Earlier(c) ==
    { t \in notion_tasks : \E q \in CreateIds : q < c /\ create_requests[q].row_id = t.id }

\* The earlier rows with c's title and recipient made less than 60 seconds
\* before c arrived.
Recent(c) ==
    { t \in Earlier(c) :
        SameKey(c, t) /\ create_requests[c].called_at - t.created_at < 60 }

\* C20: a create command that arrives less than 60 seconds after an earlier
\* command stored a record with the same title and recipient makes no call to
\* Notion, stores nothing and answers "duplicate" naming that record; one
\* that finds no such record within the 60 seconds, and whose Notion call
\* goes through, stores a record of its own next to the earlier ones.
C20_DedupWindow ==
    \A c \in CreateIds :
        (create_requests[c].pc = "done" /\ create_requests[c].outcome # "rejected")
          => /\ Recent(c) # {} =>
                  /\ create_requests[c].outcome = "duplicate"
                  /\ \E t \in Recent(c) : create_requests[c].named = t.id
                  /\ create_requests[c].external_calls = 0
                  /\ create_requests[c].row_id = 0
             /\ (Recent(c) = {} /\ create_requests[c].outcome # "failed") =>
                  /\ create_requests[c].outcome = "created"
                  /\ create_requests[c].external_calls = 1
                  /\ \E t \in notion_tasks :
                        /\ t.id = create_requests[c].row_id
                        /\ SameKey(c, t)
                        /\ t \notin Earlier(c)
                  /\ Cardinality({ t \in notion_tasks : SameKey(c, t) })
                       > Cardinality({ t \in Earlier(c) : SameKey(c, t) })

\* The second of two create commands for one title and recipient came 30
\* seconds after the first record was stored and was told of the duplicate.
C20_Witness ==
    /\ Cardinality(notion_tasks) = 1
    /\ notion_pages = 1
    /\ \E c, d \in CreateIds :
          /\ c < d
          /\ create_requests[c].outcome = "created"
          /\ create_requests[d].outcome = "duplicate"
          /\ create_requests[d].named = create_requests[c].row_id
          /\ create_requests[d].called_at > create_requests[c].called_at

\* C21: each notification has at most one handler task, the delivery sink is
\* invoked at most once for it, the invocation is addressed to the recipient
\* its discord_id names, and a task whose delivery ended, well or badly, is
\* never moved again.
C21_AtMostOneDelivery ==
    /\ [] (\A n \in 1 .. notifs :
              /\ Cardinality(TasksOf(n)) <= 1
              /\ \A t \in TasksOf(n) :
                    /\ tasks[t].sends <= 1
                    /\ (tasks[t].pc = "send" \/ tasks[t].sends > 0)
                          => tasks[t].discord_id = Recipient(tasks[t].payload))
    /\ [][ \A t \in TaskIds :
             tasks[t].pc = "done" => tasks'[t] = tasks[t] ]_vars

\* A delivery to 123456789012345678 failed once, was not tried again, and a
\* later notification was delivered.
C21_Witness ==
    \E t, u \in TaskIds :
        /\ tasks[t].notif < tasks[u].notif
        /\ tasks[t].channel = "task_update"
        /\ tasks[t].discord_id = "123456789012345678"
        /\ tasks[t].sends = 1
        /\ tasks[t].outcome = "error_logged"
        /\ tasks[t].pc = "done"
        /\ tasks[u].outcome = "sent"

\* C22: a recipient lookup that fails or finds nobody, and a delivery that
\* fails, end that one handler task with the error logged (a missing
\* recipient with a warning and no delivery); the step changes no other task,
\* not the listening flag, the connection, its callbacks, the keep-alive loop
\* or the count of notifications received.
C22_HandlerErrorContained ==
    [][ \A t \in TaskIds :
          ( \/ HandlerFetched(t, "raises")
            \/ HandlerFetched(t, "none")
            \/ HandlerSent(t, FALSE) )
          => /\ tasks'[t].pc = "done"
             /\ tasks'[t].outcome \in { "error_logged", "user_not_found" }
             /\ tasks'[t].outcome = "user_not_found" => tasks'[t].sends = 0
             /\ \A u \in TaskIds \ {t} : tasks'[u] = tasks[u]
             /\ UNCHANGED <<listening, listener_conn, conns, keep_alive, starts,
                            notifs>> ]_vars

\* The recipient lookup of one notification raised, the Listener is still
\* listening and a notification that came later was delivered.
C22_Witness ==
    /\ listening
    /\ \E t, u \in TaskIds :
          /\ tasks[t].notif < tasks[u].notif
          /\ tasks[t].payload \in WellFormed
          /\ tasks[t].discord_id # ""
          /\ tasks[t].sends = 0
          /\ tasks[t].outcome = "error_logged"
          /\ tasks[u].outcome = "sent"

\* C23: while callbacks are registered on a live connection a notification
\* can be received whatever the handlers of earlier ones are doing; receiving
\* it adds one task of its own, not yet started, and touches no other task.
C23_ReceiptNeverWaits ==
    /\ [] (\A c \in Channels, p \in Payloads :
              (notifs < MaxNotifs /\ Reached(c) # {}) => ENABLED Notify(c, p))
    /\ [][ notifs' # notifs =>
             /\ notifs' = notifs + 1
             /\ Len(tasks') = Len(tasks) + 1
             /\ \A t \in TaskIds : tasks'[t] = tasks[t]
             /\ tasks'[Len(tasks')].pc = "scheduled"
             /\ tasks'[Len(tasks')].notif = notifs' ]_vars

\* The second notification was delivered while the handler of the first was
\* still waiting for its recipient lookup.
C23_Witness ==
    \E t, u \in TaskIds :
        /\ tasks[t].notif < tasks[u].notif
        /\ tasks[t].pc = "fetch_user"
        /\ tasks[u].pc = "done"
        /\ tasks[u].outcome = "sent"

\* C24: with no keep-alive failure and no failed start behind it, however the
\* start calls interleave, at most one connection has been opened and at
\* most one keep-alive loop runs.
C24_OneConnectionUnderRace ==
    ( /\ ~stopped_on_error
      /\ \A s \in StartIds : starts[s].result # "error_logged" )
    => /\ Len(conns) <= 1
       /\ Cardinality(keep_alive) <= 1

\* C25: whenever the listening flag is true the Listener's connection is set
\* and carries a callback for each of the three channels.
C25_ListeningMeansRegistered ==
    listening =>
        /\ listener_conn # NoConn
        /\ \A c \in Channels :
              \E cb \in conns[listener_conn].callbacks : cb[1] = c

\* C26: at any time at most one open connection carries channel callbacks.
C26_OneRegisteredConnection ==
    Cardinality({ k \in OpenedConns :
                    conns[k].alive /\ conns[k].callbacks # {} }) <= 1

\* The Notion call of create command c went through: its page exists.
PageMade(c) == create_requests[c].pc = "save" \/ create_requests[c].row_id # 0

\* C27: of two create commands for one title and recipient that arrive less
\* than 60 seconds apart, however their steps interleave, at most one has its
\* Notion page made and at most one stores a record.
C27_OneRecordUnderRace ==
    \A c, d \in CreateIds :
        ( /\ c # d
          /\ create_requests[c].title # None
          /\ create_requests[c].title = create_requests[d].title
          /\ create_requests[c].discord_user_id = create_requests[d].discord_user_id
          /\ create_requests[d].called_at - create_requests[c].called_at < DedupWindow
          /\ create_requests[c].called_at - create_requests[d].called_at < DedupWindow )
        => /\ ~(PageMade(c) /\ PageMade(d))
           /\ ~(create_requests[c].row_id # 0 /\ create_requests[d].row_id # 0)

\* The status of the latest statement's row changed.
StatusChanged == last_statement.old_status # last_statement.new_status

C29_DoneNotifiesCompleted ==
    ( /\ last_statement.op = "UPDATE"
      /\ StatusChanged
      /\ last_statement.new_status = TaskStatus.DONE )
    => /\ "task_completed" \in last_statement.channels
       /\ "task_update" \notin last_statement.channels

\* C30: an update command given a valid status name and the id of a stored
\* task leaves the row with the status named; when the Notion update fails the
\* row also has sync_status "failed" and an error message.
C30_LocalStatusCommitted ==
    [][ \A t \in TaskIdInputs, st \in TaskStatusValues, ok \in BOOLEAN :
          (UpdateTask(t, st, ok) /\ FindTask(t) # {})
          => \A r \in FindTask(t) :
                /\ task_rows'[r].status = st
                /\ ~ok => /\ task_rows'[r].sync_status = "failed"
                          /\ task_rows'[r].error_message # None ]_vars

====
